---- MODULE Spec2Model ----
(***************************************************************************)
(* BeliLite: the note service (server.js, CRUD over one SQLite table) and  *)
(* the summarization gateway (server.js, POST /api/summarize).             *)
(*                                                                         *)
(* Time is counted in ticks; the store's CURRENT_TIMESTAMP has one-second  *)
(* resolution (TicksPerSec ticks), JavaScript's Date has tick resolution.  *)
(* The wall clock is taken to be monotone.                                 *)
(***************************************************************************)
EXTENDS Integers, Sequences, FiniteSets, TLC

\* ---------------------------------------------------------------- bounds
MaxId == 2            \* at most this many INSERTs on the database file
MaxClock == 1         \* the clock runs over 0..MaxClock ticks
TicksPerSec == 1      \* ticks in one second of CURRENT_TIMESTAMP

VARIABLES
  notes,        \* the notes table: rowid -> row
  seq,          \* sqlite_sequence.seq of the table (AUTOINCREMENT)
  clock,        \* wall clock, in ticks
  pending,      \* per request slot: the PUT request whose UPDATE ran and
                \* whose SELECT has not, or NoPending
  last,         \* the request answered last, with its response
  created,      \* history: every id an INSERT has assigned
  deleted,      \* history: every id a DELETE has removed
  XAI_API_KEY,  \* process.env.XAI_API_KEY
  NODE_ENV,     \* process.env.NODE_ENV
  inflight,     \* the summarize request awaiting the upstream, or Idle
  proc,         \* the process: running, closing the store handle, or exited;
                \* and how far the start of the database has come
  client        \* the page of public/app.js in one browser

vars == <<notes, seq, clock, pending, last, created, deleted,
          XAI_API_KEY, NODE_ENV, inflight, proc, client>>
noteVars == <<notes, seq, clock, pending, created, deleted>>
sumVars == <<XAI_API_KEY, NODE_ENV, inflight>>

\* ------------------------------------------------------- JSON / JS values
\* A JavaScript value: its type tag, its text (strings; arrays: the text of
\* Array.prototype.toString) and its number (numbers; booleans as 0/1).
JS(t, s, n) == [t |-> t, s |-> s, n |-> n]
Undefined == JS("undefined", <<>>, 0)
JNull == JS("null", <<>>, 0)
Str(s) == JS("string", s, 0)
Num(n) == JS("number", <<>>, n)
Bool(b) == JS("boolean", <<>>, IF b THEN 1 ELSE 0)
EmptyArray == JS("array", <<>>, 0)
EmptyObject == JS("object", <<>>, 0)

\* !v of JavaScript
Falsy(v) ==
  \/ v.t \in {"undefined", "null"}
  \/ v.t = "string" /\ v.s = <<>>
  \/ v.t \in {"number", "boolean"} /\ v.n = 0

\* a || b of JavaScript
OrElse(a, b) == IF Falsy(a) THEN b ELSE a

IsWhite(c) == c \in {" ", "\t", "\n"}

RECURSIVE TrimStart(_)
TrimStart(s) ==
  IF s # <<>> /\ IsWhite(Head(s)) THEN TrimStart(Tail(s)) ELSE s

RECURSIVE TrimEnd(_)
TrimEnd(s) ==
  IF s # <<>> /\ IsWhite(s[Len(s)]) THEN TrimEnd(SubSeq(s, 1, Len(s) - 1)) ELSE s

\* String.prototype.trim
Trim(s) == TrimEnd(TrimStart(s))

\* String.prototype.includes: needle is a contiguous part of hay
Includes(hay, needle) ==
  \E i \in 0..(Len(hay) - Len(needle)) :
     \A j \in 1..Len(needle) : hay[i + j] = needle[j]

\* Number -> decimal text, one digit per character
RECURSIVE Digits(_)
Digits(n) ==
  IF n < 10 THEN <<ToString(n)>> ELSE Digits(n \div 10) \o <<ToString(n % 10)>>

\* --------------------------------------------------------------- requests
\* The JSON values the requests of the model carry.
\* titles as the browser client sends them: a string, or none
TextTitles == {Undefined, Str(<<>>), Str(<<"a">>), Str(<<"b">>)}
\* titles of arbitrary JSON bodies
JsonTitles == {Undefined, JNull, Str(<<>>), Str(<<"a">>), Num(0), Bool(TRUE), EmptyArray}
Contents == {Undefined, Str(<<"c">>)}
Texts == {Undefined, Str(<<>>), Str(<<" ">>), Str(<<" ", "x", " ">>), Num(5)}
ReqIds == 1..MaxId

\* ------------------------------------------------------- the SQLite store
SqlNull == <<"NULL">>
ObjectText == <<"[object Object]">>

\* What the sqlite3 driver binds for a JavaScript parameter on a TEXT column:
\* strings as they are, numbers and booleans as their decimal text, null and
\* undefined as NULL; an array or object is bound as text, either the value's
\* own toString() or the literal "[object Object]", depending on the driver.
BindText(v) ==
  CASE v.t = "string" -> {v.s}
    [] v.t \in {"number", "boolean"} -> {Digits(v.n)}
    [] v.t = "array" -> {v.s, ObjectText}
    [] v.t = "object" -> {ObjectText}
    [] OTHER -> {SqlNull}

\* CURRENT_TIMESTAMP: 'YYYY-MM-DD HH:MM:SS', the clock cut to whole seconds
CurrentTimestamp(t) == [fmt |-> "sql", at |-> (t \div TicksPerSec) * TicksPerSec]

\* new Date().toISOString(): the clock at tick resolution, ISO-8601
ToISOString(t) == [fmt |-> "iso", at |-> t]

\* mutant: INTEGER PRIMARY KEY without AUTOINCREMENT, one more than the
\* largest rowid now in the table
NextRowIdReused(rows, s) ==
  IF DOMAIN rows = {} THEN 1
  ELSE 1 + CHOOSE m \in DOMAIN rows : \A i \in DOMAIN rows : i <= m

\* id INTEGER PRIMARY KEY AUTOINCREMENT: one more than the largest rowid the
\* table has ever held (sqlite_sequence), never a rowid freed by a DELETE
NextRowId(rows, s) == s + 1

\* mutant: the two bound values in the wrong order
InsertRowSwapped(id, title, content, t) ==
  [id |-> id, title |-> content, content |-> title,
   created_at |-> CurrentTimestamp(t), updated_at |-> CurrentTimestamp(t)]

\* INSERT INTO notes (title, content) VALUES (?, ?): created_at and updated_at
\* both take DEFAULT CURRENT_TIMESTAMP, evaluated once for the statement
InsertRow(id, title, content, t) ==
  [id |-> id, title |-> title, content |-> content,
   created_at |-> CurrentTimestamp(t), updated_at |-> CurrentTimestamp(t)]

\* mutant: updated_at is set one second back instead of to the current time
UpdateRowStale(row, title, content, t) ==
  [row EXCEPT !.title = title, !.content = content,
              !.updated_at = CurrentTimestamp(t - TicksPerSec)]

\* mutant: the UPDATE statement sets the title and leaves the content
UpdateRowTitleOnly(row, title, content, t) ==
  [row EXCEPT !.title = title, !.updated_at = CurrentTimestamp(t)]

\* mutant: the UPDATE statement keeps the title the row has
UpdateRowKeepsTitle(row, title, content, t) ==
  [row EXCEPT !.content = content, !.updated_at = CurrentTimestamp(t)]

\* UPDATE notes SET title = ?, content = ?, updated_at = CURRENT_TIMESTAMP
UpdateRow(row, title, content, t) ==
  [row EXCEPT !.title = title, !.content = content,
              !.updated_at = CurrentTimestamp(t)]

\* mutant: the DELETE removes nothing
DeleteRowKept(rows, id) == rows

\* DELETE FROM notes WHERE id = ?
DeleteRow(rows, id) == [i \in DOMAIN rows \ {id} |-> rows[i]]

\* the rows WHERE id = ? selects (at most one)
Matching(rows, id) == {i \in DOMAIN rows : i = id}

\* ORDER BY updated_at DESC: every order of the rows in which updated_at never
\* increases; the order among rows of equal updated_at is not determined
OrderByUpdatedDesc(rows) ==
  LET n == Cardinality(DOMAIN rows)
  IN {s \in [1..n -> DOMAIN rows] :
        /\ \A i, j \in 1..n : i # j => s[i] # s[j]
        /\ \A i \in 1..n : \A j \in 1..n :
             i < j => rows[s[i]].updated_at.at >= rows[s[j]].updated_at.at}

\* ------------------------------------------------------------ responses
NoNote == [id |-> 0]
Body(kind, note, list, text, details) ==
  [kind |-> kind, note |-> note, list |-> list, text |-> text, details |-> details]
ErrorBody(text) == Body("error", NoNote, <<>>, text, <<>>)
NoteBody(note) == Body("note", note, <<>>, "", <<>>)
ListBody(list) == Body("list", NoNote, list, "", <<>>)
MessageBody(text) == Body("message", NoNote, <<>>, text, <<>>)
\* res.json(undefined): a 200 answer with no note in it
EmptyBody == Body("empty", NoNote, <<>>, "", <<>>)
NoBody == Body("none", NoNote, <<>>, "", <<>>)

\* a row of the table as the JSON the client receives
TextJson(x) == IF x = SqlNull THEN JNull ELSE Str(x)
RowJson(row) ==
  [id |-> row.id, title |-> TextJson(row.title), content |-> TextJson(row.content),
   created_at |-> row.created_at, updated_at |-> row.updated_at]

\* A request with the answer it got. title, content: the body of a note
\* request; text: the body of a summarize request; up: what the upstream
\* did for it; calls: the outbound requests made for it.
NoUpstream == [kind |-> "none"]
Answer(op, id, title, content, status, body) ==
  [op |-> op, id |-> id, title |-> title, content |-> content,
   status |-> status, body |-> body,
   text |-> Undefined, up |-> NoUpstream, calls |-> 0]
SummarizeAnswer(text, status, body, up, calls) ==
  [op |-> "summarize", id |-> 0, title |-> Undefined, content |-> Undefined,
   status |-> status, body |-> body,
   text |-> text, up |-> up, calls |-> calls]

\* no request has been answered
NoAnswer == Answer("none", 0, Undefined, Undefined, 0, NoBody)

\* ---------------------------------------------------------- note service
\* mutant: only an absent title is refused
TitleUndefined(title) == title.t = "undefined"

\* if (!title): the presence check of POST and PUT
TitleMissing(title) == Falsy(title)

\* content || ''
ContentOrEmpty(content) == OrElse(content, Str(<<>>))

Tick ==
  /\ clock < MaxClock
  /\ clock' = clock + 1
  /\ UNCHANGED <<notes, seq, pending, last, created, deleted>>
  /\ UNCHANGED <<sumVars, proc, client>>

\* GET /api/notes
List ==
  /\ \E s \in OrderByUpdatedDesc(notes) :
       last' = Answer("list", 0, Undefined, Undefined, 200,
                      ListBody([i \in DOMAIN s |-> RowJson(notes[s[i]])]))
  /\ UNCHANGED noteVars
  /\ UNCHANGED <<sumVars, proc, client>>

\* GET /api/notes/:id
Get(id) ==
  /\ last' = IF Matching(notes, id) = {}
               THEN Answer("get", id, Undefined, Undefined, 404, ErrorBody("Note not found"))
               ELSE Answer("get", id, Undefined, Undefined, 200, NoteBody(RowJson(notes[id])))
  /\ UNCHANGED noteVars
  /\ UNCHANGED <<sumVars, proc, client>>

\* POST /api/notes
Create(title, content) ==
  /\ UNCHANGED <<sumVars, proc, client>>
  /\ UNCHANGED <<pending, deleted>>
  /\ IF TitleMissing(title)
       THEN /\ last' = Answer("create", 0, title, content, 400, ErrorBody("Title is required"))
            /\ UNCHANGED <<notes, seq, clock, created>>
       ELSE \E tt \in BindText(title), cc \in BindText(ContentOrEmpty(content)) :
              IF tt = SqlNull
                THEN \* title TEXT NOT NULL: the INSERT fails, callback gets err
                     /\ last' = Answer("create", 0, title, content, 500,
                                       ErrorBody("NOT NULL constraint failed: notes.title"))
                     /\ UNCHANGED <<notes, seq, clock, created>>
                ELSE LET id == NextRowId(notes, seq) IN
                     /\ seq < MaxId
                     /\ notes' = [i \in DOMAIN notes \cup {id} |->
                                    IF i = id THEN InsertRow(id, tt, cc, clock) ELSE notes[i]]
                     /\ seq' = IF id > seq THEN id ELSE seq
                     /\ created' = created \cup {id}
                     \* the callback reads the clock twice, after the INSERT
                     /\ \E t2 \in {t \in {clock, clock + 1} : t <= MaxClock} :
                          /\ clock' = t2
                          /\ last' = Answer("create", id, title, content, 200,
                               NoteBody([id |-> id, title |-> title,
                                         content |-> ContentOrEmpty(content),
                                         created_at |-> ToISOString(clock),
                                         updated_at |-> ToISOString(t2)]))

\* A PUT request between its UPDATE and its re-read occupies a slot; every
\* other request may run in between. The number of slots is fixed at start.
NoPending == [state |-> "none", id |-> 0, title |-> Undefined, content |-> Undefined]

\* no PUT request is between its UPDATE and its re-read
Quiet == \A s \in DOMAIN pending : pending[s] = NoPending

\* the slot the next PUT request takes: the lowest free one
FreeSlot ==
  CHOOSE s \in DOMAIN pending :
    /\ pending[s] = NoPending
    /\ \A r \in DOMAIN pending : pending[r] = NoPending => s <= r

\* PUT /api/notes/:id, up to the callback of the UPDATE statement
Update(id, title, content) ==
  /\ UNCHANGED <<sumVars, proc, client>>
  /\ UNCHANGED <<seq, clock, created, deleted>>
  /\ IF TitleMissing(title)
       THEN /\ last' = Answer("update", id, title, content, 400, ErrorBody("Title is required"))
            /\ UNCHANGED <<notes, pending>>
       ELSE \E tt \in BindText(title), cc \in BindText(ContentOrEmpty(content)) :
              IF Matching(notes, id) = {}
                THEN \* this.changes === 0
                     /\ last' = Answer("update", id, title, content, 404, ErrorBody("Note not found"))
                     /\ UNCHANGED <<notes, pending>>
                ELSE IF tt = SqlNull
                THEN /\ last' = Answer("update", id, title, content, 500,
                                       ErrorBody("NOT NULL constraint failed: notes.title"))
                     /\ UNCHANGED <<notes, pending>>
                ELSE /\ \E s \in DOMAIN pending : pending[s] = NoPending
                     /\ notes' = [notes EXCEPT ![id] = UpdateRow(notes[id], tt, cc, clock)]
                     /\ pending' = [pending EXCEPT ![FreeSlot] =
                          [state |-> "reread", id |-> id, title |-> title, content |-> content]]
                     /\ UNCHANGED last

\* PUT /api/notes/:id, the re-read: db.get('SELECT * FROM notes WHERE id = ?')
UpdateReread(s) ==
  /\ pending[s] # NoPending
  /\ pending' = [pending EXCEPT ![s] = NoPending]
  /\ last' = IF Matching(notes, pending[s].id) = {}
               THEN Answer("update", pending[s].id, pending[s].title, pending[s].content,
                           200, EmptyBody)
               ELSE Answer("update", pending[s].id, pending[s].title, pending[s].content,
                           200, NoteBody(RowJson(notes[pending[s].id])))
  /\ UNCHANGED <<notes, seq, clock, created, deleted>>
  /\ UNCHANGED <<sumVars, proc, client>>

\* DELETE /api/notes/:id
Delete(id) ==
  /\ UNCHANGED <<sumVars, proc, client>>
  /\ UNCHANGED <<seq, clock, pending, created>>
  /\ IF Matching(notes, id) = {}
       THEN /\ last' = Answer("delete", id, Undefined, Undefined, 404, ErrorBody("Note not found"))
            /\ UNCHANGED <<notes, deleted>>
       ELSE /\ notes' = DeleteRow(notes, id)
            /\ deleted' = deleted \cup {id}
            /\ last' = Answer("delete", id, Undefined, Undefined, 200,
                              MessageBody("Note deleted successfully"))

\* ------------------------------------------------------- store failures
\* A statement the store cannot execute (the file is locked by another
\* process, the disk fails) changes nothing; its callback gets err, and the
\* handler answers 500 with err.message.
StoreErrors == {"SQLITE_BUSY: database is locked", "SQLITE_IOERR: disk I/O error"}

\* GET /api/notes, the SELECT fails
ListFails(e) ==
  /\ last' = Answer("list", 0, Undefined, Undefined, 500, ErrorBody(e))
  /\ UNCHANGED noteVars
  /\ UNCHANGED <<sumVars, proc, client>>

\* GET /api/notes/:id, the SELECT fails
GetFails(id, e) ==
  /\ last' = Answer("get", id, Undefined, Undefined, 500, ErrorBody(e))
  /\ UNCHANGED noteVars
  /\ UNCHANGED <<sumVars, proc, client>>

\* POST /api/notes, the INSERT fails
CreateFails(title, content, e) ==
  /\ ~TitleMissing(title)
  /\ last' = Answer("create", 0, title, content, 500, ErrorBody(e))
  /\ UNCHANGED noteVars
  /\ UNCHANGED <<sumVars, proc, client>>

\* PUT /api/notes/:id, the UPDATE fails
UpdateFails(id, title, content, e) ==
  /\ ~TitleMissing(title)
  /\ last' = Answer("update", id, title, content, 500, ErrorBody(e))
  /\ UNCHANGED noteVars
  /\ UNCHANGED <<sumVars, proc, client>>

\* PUT /api/notes/:id, the UPDATE has run and the SELECT of the re-read fails
RereadFails(s, e) ==
  /\ pending[s] # NoPending
  /\ pending' = [pending EXCEPT ![s] = NoPending]
  /\ last' = Answer("update", pending[s].id, pending[s].title, pending[s].content,
                    500, ErrorBody(e))
  /\ UNCHANGED <<notes, seq, clock, created, deleted>>
  /\ UNCHANGED <<sumVars, proc, client>>

\* DELETE /api/notes/:id, the DELETE fails
DeleteFails(id, e) ==
  /\ last' = Answer("delete", id, Undefined, Undefined, 500, ErrorBody(e))
  /\ UNCHANGED noteVars
  /\ UNCHANGED <<sumVars, proc, client>>

\* ------------------------------------------------- summarization gateway
\* Texts of messages are sequences of words; includes() matches whole words.
NoText == <<>>
NoChoices == <<"no choices">>
Messages ==
  {NoText, <<"Incorrect", "API", "key">>, <<"Unauthorized">>,
   <<"rate", "limit", "exceeded">>, <<"Too", "Many", "Requests">>}
Summaries == {<<" ", "s", " ">>}

\* What the upstream does with the one outbound request: the transport fails,
\* or an HTTP response arrives with a status and a body. A JSON body is
\* {error: {message: errorMessage}, message: message,
\*  choices: [{message: {content: content}}]}, each part present or not.
NetworkFailure == [kind |-> "network", status |-> 0, json |-> FALSE,
                   errorMessage |-> NoText, message |-> NoText, content |-> NoChoices]
Http(status, json, errorMessage, message, content) ==
  [kind |-> "http", status |-> status, json |-> json,
   errorMessage |-> errorMessage, message |-> message, content |-> content]
UpstreamStatuses == {200, 400, 401, 429, 500}
Upstreams ==
  {NetworkFailure}
  \cup {Http(st, FALSE, NoText, NoText, NoChoices) : st \in UpstreamStatuses}
  \cup {Http(st, TRUE, m, NoText, NoChoices) : st \in UpstreamStatuses, m \in Messages}
  \cup {Http(st, TRUE, NoText, m, NoChoices) : st \in UpstreamStatuses, m \in Messages}
  \cup {Http(200, TRUE, NoText, NoText, c) : c \in Summaries}

\* response.ok
Ok(status) == status >= 200 /\ status <= 299

\* mutant: the text is not trimmed before the check
TextFalsy(text) == Falsy(text)

\* mutant: the credential is checked first, the text only when it is set
TextMissingWithKey(text) ==
  /\ ~Falsy(XAI_API_KEY)
  /\ Falsy(text) \/ (text.t = "string" /\ Len(Trim(text.s)) = 0)

\* !text || text.trim().length === 0, for a text that has a trim method
TextMissing(text) == Falsy(text) \/ (text.t = "string" /\ Len(Trim(text.s)) = 0)

\* mutant: only an unset variable counts as no credential
KeyUndefined(key) == key.t = "undefined"

\* !XAI_API_KEY
KeyMissing(key) == Falsy(key)

\* `API returned status ${response.status}`
StatusMessage(status) == <<"API", "returned", "status", ToString(status)>>

\* errorData.error?.message || errorData.message || `API returned status ...`,
\* errorData being {} when the body is not JSON
ErrorMessage(u) ==
  LET em == IF u.json THEN u.errorMessage ELSE NoText
      m == IF u.json THEN u.message ELSE NoText
  IN IF em # NoText THEN em ELSE IF m # NoText THEN m ELSE StatusMessage(u.status)

\* The error the try block throws for an upstream outcome, or NoText when it
\* throws nothing: fetch rejects; the status is not ok; the body of an ok
\* response is not JSON; data.choices is undefined.
Thrown(u) ==
  CASE u.kind = "network" -> <<"fetch", "failed">>
    [] ~Ok(u.status) -> ErrorMessage(u)
    [] ~u.json -> <<"Unexpected", "token", "in", "JSON">>
    [] u.content = NoChoices -> <<"Cannot", "read", "properties", "of", "undefined">>
    [] OTHER -> NoText

\* mutant: an error that is neither 401 nor 429 is passed on as 502
ClassifyBadGateway(msg) ==
  IF Includes(msg, <<"401">>) \/ Includes(msg, <<"Unauthorized">>) THEN 401
  ELSE IF Includes(msg, <<"429">>) \/ Includes(msg, <<"rate", "limit">>) THEN 429
  ELSE 502

\* the catch block: the status chosen from the text of the error message
Classify(msg) ==
  IF Includes(msg, <<"401">>) \/ Includes(msg, <<"Unauthorized">>) THEN 401
  ELSE IF Includes(msg, <<"429">>) \/ Includes(msg, <<"rate", "limit">>) THEN 429
  ELSE 500

\* details: process.env.NODE_ENV === 'development' ? error.message : undefined
Details(env, msg) == IF env = "development" THEN msg ELSE NoText

CatchBody(env, msg) ==
  CASE Classify(msg) = 401 -> ErrorBody("Invalid xAI API key")
    [] Classify(msg) = 429 ->
         ErrorBody("xAI API rate limit exceeded. Please try again later.")
    [] OTHER -> Body("error", NoNote, <<>>,
                     "Failed to summarize text. Please try again.", Details(env, msg))

Idle == [state |-> "idle", text |-> Undefined, calls |-> 0]

\* mutant: the outbound request is sent a second time
FetchTwice(text) == [state |-> "awaiting", text |-> text, calls |-> 2]

\* await fetch(XAI_API_URL, ...): the one outbound request of the handler
Fetch(text) == [state |-> "awaiting", text |-> text, calls |-> 1]

\* POST /api/summarize, up to the await of fetch
Summarize(text) ==
  /\ inflight = Idle
  /\ UNCHANGED <<noteVars, XAI_API_KEY, NODE_ENV, proc, client>>
  /\ IF Falsy(text) \/ text.t = "string"
       THEN IF TextMissing(text)
              THEN /\ last' = SummarizeAnswer(text, 400,
                                ErrorBody("Text is required for summarization"), NoUpstream, 0)
                   /\ UNCHANGED inflight
              ELSE IF KeyMissing(XAI_API_KEY)
              THEN /\ last' = SummarizeAnswer(text, 500,
                                ErrorBody("xAI API key not configured. Please set XAI_API_KEY in your .env file."),
                                NoUpstream, 0)
                   /\ UNCHANGED inflight
              ELSE /\ inflight' = Fetch(text)
                   /\ UNCHANGED last
       ELSE \* text.trim is not a function: the async handler rejects outside
            \* its try block; the request is left unanswered, or the framework's
            \* error handler answers 500, depending on the framework version
            /\ \E st \in {0, 500} :
                 last' = SummarizeAnswer(text, st, NoBody, NoUpstream, 0)
            /\ UNCHANGED inflight

\* POST /api/summarize, from the upstream's outcome to the answer
UpstreamDone(u) ==
  /\ inflight.state = "awaiting"
  /\ inflight' = Idle
  /\ last' = IF Thrown(u) = NoText
               THEN SummarizeAnswer(inflight.text, 200,
                      Body("summary", NoNote, <<>>, "", Trim(u.content)), u, inflight.calls)
               ELSE SummarizeAnswer(inflight.text, Classify(Thrown(u)),
                      CatchBody(NODE_ENV, Thrown(u)), u, inflight.calls)
  /\ UNCHANGED <<noteVars, XAI_API_KEY, NODE_ENV, proc, client>>

\* --------------------------------------------------------------- shutdown
\* state: running, closing (SIGINT received), exited. close: the db.close the
\* handler issued: none, requested, done (the handle is released) or failed.
\* db: opening (new sqlite3.Database under way), creating (the open callback
\* has issued CREATE TABLE IF NOT EXISTS), ready (the notes table exists).
Running == [state |-> "running", close |-> "none", db |-> "ready"]

\* mutant: the handler exits at once, without waiting for db.close
OnSigintExit(p) == [state |-> "exited", close |-> p.close, db |-> p.db]

\* process.on('SIGINT'): db.close(callback); a db.close already issued stays
OnSigint(p) ==
  [state |-> "closing", close |-> IF p.close = "none" THEN "requested" ELSE p.close,
   db |-> p.db]

Sigint ==
  /\ proc.state # "exited"
  /\ proc' = OnSigint(proc)
  /\ UNCHANGED <<noteVars, sumVars, last, client>>

\* the driver finishes the close, with or without an error
CloseCompletes(ok) ==
  /\ proc.state # "exited"
  /\ proc.close = "requested"
  /\ proc' = [proc EXCEPT !.close = IF ok THEN "done" ELSE "failed"]
  /\ UNCHANGED <<noteVars, sumVars, last, client>>

\* the callback of db.close: logs err if any, then process.exit(0)
CloseCallback ==
  /\ proc.state # "exited"
  /\ proc.close \in {"done", "failed"}
  /\ proc' = [proc EXCEPT !.state = "exited"]
  /\ UNCHANGED <<noteVars, sumVars, last, client>>

\* handlers run while the process lives and the handle accepts statements
Serving == proc.state # "exited" /\ proc.close \in {"none", "requested"}

\* ---------------------------------------------------------------- startup
\* The module opens the database and calls app.listen in the same turn; the
\* open and the CREATE TABLE complete later, each in its own callback, and
\* nothing makes a handler wait for them. The driver holds the statements
\* issued before the open completes and then runs them without an order
\* among statements (no db.serialize): a request's statement can run before
\* the CREATE TABLE has.
Starting == [state |-> "running", close |-> "none", db |-> "opening"]
NoSuchTable == "SQLITE_ERROR: no such table: notes"

\* the callback of new sqlite3.Database, err null: db.run(CREATE TABLE ...)
DbOpened ==
  /\ proc.db = "opening"
  /\ proc' = [proc EXCEPT !.db = "creating"]
  /\ UNCHANGED <<noteVars, sumVars, last, client>>

\* the CREATE TABLE IF NOT EXISTS statement has run
TableCreated ==
  /\ proc.db = "creating"
  /\ proc' = [proc EXCEPT !.db = "ready"]
  /\ UNCHANGED <<noteVars, sumVars, last, client>>

\* the statement of a request runs on the open database before CREATE TABLE
BeforeTable == proc.db = "creating"
TableReady == proc.db = "ready"

\* ------------------------------------------------- browser client (app.js)
\* editingNoteId: 0 stands for null. shown: the ids of the notes the list
\* displays, each with its Edit and Delete button. reload: a loadNotes() call
\* is due. disabled, label: the summarize button. originalText, text: the
\* locals of the summarizeText call under way (sum = "sent"). notice: the
\* text of the last alert or success message.
\* The fields of the form are not kept: the user can type any title and
\* content before a submit or a click on the summarize button.
\* A request of the page, the handler that serves it and the answer on its
\* way back are `last`: one answer at a time travels to the page, and the
\* continuation of the function that awaits it takes it.
OriginalLabel == "Summarize"
LoadingLabel == "Summarizing..."
Page ==
  [editingNoteId |-> 0, shown |-> {}, reload |-> TRUE,
   disabled |-> FALSE, label |-> OriginalLabel, originalText |-> "",
   sum |-> "idle", text |-> <<>>, notice |-> ""]

\* what the user has typed into a field of the form
FormTitles == {<<>>, <<" ">>, <<"a">>}
FormTexts == {<<>>, <<" ">>, <<" ", "x", " ">>}

\* no answer is on its way to the page
NoneDue == last = NoAnswer

\* the answer is taken by the continuation that awaited it
Taken(c) ==
  /\ client' = c
  /\ last' = NoAnswer
  /\ UNCHANGED <<noteVars, sumVars, proc>>

\* a step of the page alone
Local(c) ==
  /\ client' = c
  /\ UNCHANGED <<noteVars, sumVars, proc, last>>

\* loadNotes(), up to the await of fetch: GET /api/notes
loadNotes ==
  /\ client.reload /\ NoneDue
  /\ List

\* loadNotes(), after the await: displayNotes(notes) or the error text
loadNotesDone ==
  /\ last.op = "list"
  /\ Taken([client EXCEPT
       !.reload = FALSE,
       !.shown = IF Ok(last.status)
                   THEN {last.body.list[i].id : i \in DOMAIN last.body.list}
                   ELSE {}])

\* the Edit button of a displayed note: editNote(id), GET /api/notes/:id
editNote(id) ==
  /\ id \in client.shown /\ NoneDue
  /\ Get(id)

\* editNote(id), after the await: edit mode, or the alert
editNoteDone ==
  /\ last.op = "get"
  /\ Taken(IF Ok(last.status)
             THEN [client EXCEPT !.editingNoteId = last.id]
             ELSE [client EXCEPT !.notice = "Failed to load note for editing."])

\* cancelBtn click: cancelEdit(); the button is displayed in edit mode
cancelEdit ==
  /\ client.editingNoteId # 0
  /\ Local([client EXCEPT !.editingNoteId = 0])

\* the Delete button of a displayed note, confirmed: deleteNote(id)
deleteNote(id) ==
  /\ id \in client.shown /\ NoneDue
  /\ Delete(id)

\* deleteNote(id), after the await: loadNotes(), or the alert
deleteNoteDone ==
  /\ last.op = "delete"
  /\ Taken(IF Ok(last.status)
             THEN [client EXCEPT !.reload = TRUE]
             ELSE [client EXCEPT !.notice = "Failed to delete note. Please try again."])

\* the submit listener of noteForm with the title typed: the alert, or
\* updateNote(editingNoteId, title, content) in edit mode, or
\* createNote(title, content); the content typed is ''
submit(typed) ==
  LET title == Trim(typed) IN
  IF title = <<>>
    THEN Local([client EXCEPT !.notice = "Please enter a title"])
    ELSE /\ NoneDue
         /\ IF client.editingNoteId # 0
              THEN Update(client.editingNoteId, Str(title), Str(<<>>))
              ELSE Create(Str(title), Str(<<>>))

\* updateNote, after the await: leave edit mode and loadNotes(), or the alert
updateNoteDone ==
  /\ last.op = "update"
  /\ Taken(IF Ok(last.status)
             THEN [client EXCEPT !.editingNoteId = 0, !.reload = TRUE]
             ELSE [client EXCEPT !.notice = "Failed to update note. Please try again."])

\* createNote, after the await: loadNotes(), or the alert
createNoteDone ==
  /\ last.op = "create"
  /\ Taken(IF Ok(last.status)
             THEN [client EXCEPT !.reload = TRUE]
             ELSE [client EXCEPT !.notice = "Failed to create note. Please try again."])

\* summarizeBtn click with the content typed: summarizeText() up to the
\* fetch; a disabled button gets no click
summarizeText(typed) ==
  LET text == Trim(typed) IN
  /\ ~client.disabled
  /\ Local(IF text = <<>>
             THEN [client EXCEPT !.notice = "Please enter some text to summarize first!"]
             ELSE [client EXCEPT !.disabled = TRUE, !.originalText = client.label,
                                 !.label = LoadingLabel, !.sum = "sent", !.text = text])

\* the request of summarizeText reaches the server: POST /api/summarize
summarizeFetch ==
  /\ client.sum = "sent" /\ NoneDue
  /\ Summarize(Str(client.text))

\* mutant: the button is enabled again and keeps the loading label
FinallyKeepsLabel(c) == [c EXCEPT !.disabled = FALSE, !.sum = "idle", !.text = <<>>]

\* finally: summarizeBtn.disabled = false; textContent = originalText
Finally(c) ==
  [c EXCEPT !.disabled = FALSE, !.label = c.originalText, !.sum = "idle", !.text = <<>>]

\* summarizeText, after the await: the summary and the success message, or
\* the alert with the error of the answer; then finally
summarizeDone ==
  /\ last.op = "summarize"
  /\ Taken(Finally(IF Ok(last.status)
                     THEN [client EXCEPT !.notice = "Text summarized!"]
                     ELSE [client EXCEPT !.notice = last.body.text]))

\* summarizeText, fetch rejects (the server is not reached): catch, finally
summarizeFails ==
  /\ client.sum = "sent" /\ NoneDue /\ inflight = Idle
  /\ Local(Finally([client EXCEPT !.notice = "Failed to summarize: Failed to fetch"]))

\* ----------------------------------------------------------------- system
\* the database file is new: no table rows, no sqlite_sequence entry; the
\* server has n request slots for PUT
InitServing(n) ==
  /\ notes = <<>>
  /\ seq = 0
  /\ clock = 0
  /\ pending = [s \in 1..n |-> NoPending]
  /\ last = NoAnswer
  /\ created = {}
  /\ deleted = {}
  /\ inflight = Idle
  /\ proc = Running
  /\ client = Page

\* PUT requests are served one at a time
InitStore == InitServing(1)

\* the container's environment: NODE_ENV=production, no XAI_API_KEY set
Init ==
  /\ InitStore
  /\ XAI_API_KEY = Undefined
  /\ NODE_ENV = "production"

NotesNext(titles) ==
  \/ Tick
  \/ List
  \/ \E id \in ReqIds : Get(id)
  \/ \E title \in titles, content \in Contents : Create(title, content)
  \/ \E id \in ReqIds, title \in titles, content \in Contents : Update(id, title, content)
  \/ \E s \in DOMAIN pending : UpdateReread(s)
  \/ \E id \in ReqIds : Delete(id)

\* the note service driven with text titles
Next == NotesNext(TextTitles)
Spec == Init /\ [][Next]_vars

\* the note service driven with arbitrary JSON bodies
NextJson == NotesNext(JsonTitles)
SpecJson == Init /\ [][NextJson]_vars

\* the note service over a store whose statements can fail
FaultTitles == {Str(<<>>), Str(<<"a">>), Str(<<"b">>)}
FaultContents == {Undefined}
FaultsNext ==
  \/ \E id \in ReqIds : Get(id)
  \/ \E title \in FaultTitles, content \in FaultContents : Create(title, content)
  \/ \E id \in ReqIds, title \in FaultTitles, content \in FaultContents :
        Update(id, title, content)
  \/ \E s \in DOMAIN pending : UpdateReread(s)
  \/ \E id \in ReqIds : Delete(id)
  \/ \E e \in StoreErrors : ListFails(e)
  \/ \E id \in ReqIds, e \in StoreErrors : GetFails(id, e)
  \/ \E title \in FaultTitles, content \in FaultContents, e \in StoreErrors :
        CreateFails(title, content, e)
  \/ \E id \in ReqIds, title \in FaultTitles, content \in FaultContents, e \in StoreErrors :
        UpdateFails(id, title, content, e)
  \/ \E s \in DOMAIN pending, e \in StoreErrors : RereadFails(s, e)
  \/ \E id \in ReqIds, e \in StoreErrors : DeleteFails(id, e)

SpecFaults == Init /\ [][FaultsNext]_vars

\* the note service until a SIGINT shuts the process down
ShutdownTitles == {Str(<<"a">>), Str(<<"b">>)}
ShutdownNext ==
  \/ /\ Serving
     /\ \/ \E id \in ReqIds : Get(id)
        \/ \E title \in ShutdownTitles : Create(title, Undefined)
        \/ \E id \in ReqIds, title \in ShutdownTitles : Update(id, title, Undefined)
        \/ \E s \in DOMAIN pending : UpdateReread(s)
        \/ \E id \in ReqIds : Delete(id)
  \/ Sigint
  \/ \E ok \in BOOLEAN : CloseCompletes(ok)
  \/ CloseCallback

\* the driver always finishes a close it was asked for and calls back
SpecShutdown ==
  /\ Init /\ [][ShutdownNext]_vars
  /\ WF_vars(\E ok \in BOOLEAN : CloseCompletes(ok))
  /\ WF_vars(CloseCallback)

\* the note service with two PUT requests served at once
InitConcurrent ==
  /\ InitServing(2)
  /\ XAI_API_KEY = Undefined
  /\ NODE_ENV = "production"

ConcurrentTitles == {Str(<<"a">>), Str(<<"b">>)}
ConcurrentNext ==
  \/ \E title \in ConcurrentTitles : Create(title, Undefined)
  \/ \E id \in ReqIds, title \in ConcurrentTitles : Update(id, title, Undefined)
  \/ \E s \in DOMAIN pending : UpdateReread(s)
  \/ \E id \in ReqIds : Delete(id)

SpecConcurrent == InitConcurrent /\ [][ConcurrentNext]_vars

\* the note service from the start of the process on a new database file
InitStartup ==
  /\ notes = <<>>
  /\ seq = 0
  /\ clock = 0
  /\ pending = [s \in 1..1 |-> NoPending]
  /\ last = NoAnswer
  /\ created = {}
  /\ deleted = {}
  /\ inflight = Idle
  /\ proc = Starting
  /\ client = Page
  /\ XAI_API_KEY = Undefined
  /\ NODE_ENV = "production"

StartupTitles == {Str(<<>>), Str(<<"a">>), Str(<<"b">>)}
StartupNext ==
  \/ DbOpened
  \/ TableCreated
  \/ /\ BeforeTable
     /\ \/ ListFails(NoSuchTable)
        \/ \E id \in ReqIds : GetFails(id, NoSuchTable)
        \/ \E title \in StartupTitles : CreateFails(title, Undefined, NoSuchTable)
        \/ \E id \in ReqIds, title \in StartupTitles :
              UpdateFails(id, title, Undefined, NoSuchTable)
        \/ \E id \in ReqIds : DeleteFails(id, NoSuchTable)
  \/ /\ TableReady
     /\ \/ List
        \/ \E id \in ReqIds : Get(id)
        \/ \E title \in StartupTitles : Create(title, Undefined)
        \/ \E id \in ReqIds, title \in StartupTitles : Update(id, title, Undefined)
        \/ \E s \in DOMAIN pending : UpdateReread(s)
        \/ \E id \in ReqIds : Delete(id)

SpecStartup == InitStartup /\ [][StartupNext]_vars

\* the note service and the gateway side by side, for the order of their
\* checks: requests with and without a title, for ids with and without a note,
\* texts with and without a credential
ValidationTitles == {Undefined, Str(<<>>), Str(<<"a">>)}
ValidationUpstreams ==
  {NetworkFailure} \cup {Http(200, TRUE, NoText, NoText, c) : c \in Summaries}
ValidationNext ==
  \/ \E title \in ValidationTitles : Create(title, Undefined)
  \/ \E id \in ReqIds, title \in ValidationTitles : Update(id, title, Undefined)
  \/ \E s \in DOMAIN pending : UpdateReread(s)
  \/ \E id \in ReqIds : Delete(id)
  \/ \E text \in Texts : Summarize(text)
  \/ \E u \in ValidationUpstreams : UpstreamDone(u)

\* one page and the server it talks to, a credential configured
InitClient ==
  /\ InitStore
  /\ XAI_API_KEY = Str(<<"k">>)
  /\ NODE_ENV = "production"

ClientNext ==
  \/ loadNotes
  \/ loadNotesDone
  \/ \E id \in ReqIds : editNote(id)
  \/ editNoteDone
  \/ cancelEdit
  \/ \E id \in ReqIds : deleteNote(id)
  \/ deleteNoteDone
  \/ \E typed \in FormTitles : submit(typed)
  \/ updateNoteDone
  \/ createNoteDone
  \/ \E typed \in FormTexts : summarizeText(typed)
  \/ summarizeFetch
  \/ summarizeDone
  \/ summarizeFails
  \/ NoneDue /\ \E s \in DOMAIN pending : UpdateReread(s)
  \/ NoneDue /\ \E u \in ValidationUpstreams : UpstreamDone(u)

SpecClient == InitClient /\ [][ClientNext]_vars

\* the gateway, under every configuration of the credential and the mode
InitSummarize ==
  /\ InitStore
  /\ XAI_API_KEY \in {Undefined, Str(<<>>), Str(<<"k">>)}
  /\ NODE_ENV \in {"production", "development"}

SummarizeNext ==
  \/ \E text \in Texts : Summarize(text)
  \/ \E u \in Upstreams : UpstreamDone(u)

SpecSummarize == InitSummarize /\ [][SummarizeNext]_vars

SpecValidation == InitSummarize /\ [][ValidationNext]_vars

\* the gateway with an upstream call that always comes to an end: fetch
\* resolves with a response or rejects
SpecSummarizeLive ==
  /\ InitSummarize /\ [][SummarizeNext]_vars
  /\ WF_vars(\E u \in Upstreams : UpstreamDone(u))

\* ------------------------------------------------------------ properties
\* a step that answers a request
Answered == last' # last

\* C1: a Get(id) right after a successful Create with a non-empty text title
\* answers 200 with the title and content supplied ('' when the content is
\* absent) and created_at equal to updated_at.
C1_GetAfterCreate ==
  [][(/\ last.op = "create" /\ last.status = 200 /\ Quiet
      /\ last.title.t = "string"
      /\ last.content.t \in {"string", "undefined"}
      /\ Answered /\ last'.op = "get" /\ last'.id = last.id)
     => /\ last'.status = 200
        /\ last'.body.kind = "note"
        /\ last'.body.note.id = last.id
        /\ last'.body.note.title = last.title
        /\ last'.body.note.content =
             (IF last.content.t = "undefined" THEN Str(<<>>) ELSE last.content)
        /\ last'.body.note.created_at = last'.body.note.updated_at]_vars

C1_Witness ==
  /\ last.op = "get" /\ last.status = 200
  /\ last.body.note.title = Str(<<"a">>)
  /\ last.body.note.content = Str(<<"c">>)
  /\ last.body.note.created_at = last.body.note.updated_at
  /\ last.body.note.created_at.at > 0

\* C2: the UPDATE of a successful Update leaves the note with updated_at
\* strictly greater than created_at and with its id and created_at unchanged.
C2_UpdateAdvances ==
  [][\A s \in DOMAIN pending :
       (pending[s] = NoPending /\ pending'[s] # NoPending)
       => LET id == pending'[s].id IN
          /\ notes'[id].updated_at.at > notes'[id].created_at.at
          /\ notes'[id].created_at = notes[id].created_at
          /\ notes'[id].id = notes[id].id]_vars

\* C3: a Get of an id that a Delete has removed answers 404, and a Delete of
\* an id that matches no stored note answers 404, not the success message.
C3_DeletedIsGone ==
  [][Answered
     => /\ (last'.op = "get" /\ last'.id \in deleted) => last'.status = 404
        /\ (last'.op = "delete" /\ last'.id \notin DOMAIN notes)
             => /\ last'.status = 404
                /\ last'.body.text # "Note deleted successfully"
                /\ notes' = notes]_vars

C3_Witness ==
  /\ last.op = "get" /\ last.status = 404
  /\ last.id \in deleted
  /\ notes # <<>>

\* C4: a Create or Update whose title is empty or missing answers 400,
\* whatever its content, and leaves the table as it was.
EmptyOrMissing(title) == title \in {Undefined, JNull, Str(<<>>)}
C4_TitleRequired ==
  [][(Answered /\ last'.op \in {"create", "update"} /\ EmptyOrMissing(last'.title))
     => /\ last'.status = 400
        /\ notes' = notes /\ seq' = seq]_vars

C4_Witness ==
  /\ last.op = "update" /\ last.status = 400
  /\ last.title = Str(<<>>) /\ last.content = Str(<<"c">>)
  /\ last.id \in DOMAIN notes

\* C5: List answers every stored note, sorted by updated_at descending, and a
\* List right after a successful Create has the new note first.
C5_NewNoteFirst ==
  [][(Answered /\ last'.op = "list")
     => LET l == last'.body.list IN
        /\ {l[i].id : i \in DOMAIN l} = DOMAIN notes
        /\ \A i, j \in DOMAIN l : i < j => l[i].updated_at.at >= l[j].updated_at.at
        /\ (last.op = "create" /\ last.status = 200 /\ Quiet)
             => l[1].id = last.id]_vars

\* C6: a Summarize whose text is empty or only whitespace answers 400, and no
\* outbound call is made for it.
Blank(text) == text.t = "string" /\ Trim(text.s) = <<>>
C6_BlankTextRefused ==
  /\ (last.op = "summarize" /\ Blank(last.text))
       => last.status = 400 /\ last.calls = 0 /\ last.up = NoUpstream
  /\ inflight.state = "awaiting" => ~Blank(inflight.text)

C6_Witness ==
  /\ last.op = "summarize" /\ last.text = Str(<<" ">>) /\ last.status = 400
  /\ XAI_API_KEY = Str(<<"k">>)

\* C7: a Summarize with valid text while no credential is configured answers
\* 500 with the configuration error, and no outbound call is made for it.
NoCredential == XAI_API_KEY \in {Undefined, Str(<<>>)}
C7_NoKeyRefused ==
  /\ (last.op = "summarize" /\ last.text.t = "string" /\ ~Blank(last.text) /\ NoCredential)
       => /\ last.status = 500 /\ last.calls = 0 /\ last.up = NoUpstream
          /\ last.body.text = "xAI API key not configured. Please set XAI_API_KEY in your .env file."
  /\ inflight.state = "awaiting" => ~NoCredential

C7_Witness ==
  /\ last.op = "summarize" /\ last.text = Str(<<" ", "x", " ">>) /\ last.status = 500
  /\ XAI_API_KEY = Undefined

\* C8: an upstream failure is answered by its kind: status 401 with 401,
\* status 429 with 429, any other failing status or a network failure with 500.
C8_MappedByKind ==
  (last.op = "summarize" /\ last.up # NoUpstream
     /\ (last.up.kind = "network" \/ ~Ok(last.up.status)))
  => last.status = (CASE last.up.kind = "http" /\ last.up.status = 401 -> 401
                      [] last.up.kind = "http" /\ last.up.status = 429 -> 429
                      [] OTHER -> 500)

C10_IdsNeverReused ==
  [][(Answered /\ last'.op = "create" /\ last'.status = 200)
     => /\ last'.id \notin created
        /\ last'.id \in DOMAIN notes' /\ last'.id \notin DOMAIN notes]_vars

C10_Witness ==
  /\ last.op = "create" /\ last.status = 200
  /\ \E d \in deleted : d < last.id
  /\ DOMAIN notes = {last.id}

\* C11: in every reachable state of the store, every stored note has
\* updated_at >= created_at.
C11_UpdatedNotBeforeCreated ==
  \A id \in DOMAIN notes : notes[id].updated_at.at >= notes[id].created_at.at

C11_Witness ==
  \E id \in DOMAIN notes :
     /\ notes[id].updated_at.at > notes[id].created_at.at
     /\ last.op = "update" /\ last.status = 200 /\ last.id = id

\* C12: a Summarize whose text is not a string that is non-empty after
\* trimming (missing, null, empty, whitespace-only, or of another JSON type)
\* answers 400.
C12_NonStringRefused ==
  (last.op = "summarize" /\ ~(last.text.t = "string" /\ Trim(last.text.s) # <<>>))
  => last.status = 400

C14_CreateAnswersStored ==
  [][(Answered /\ last'.op = "create" /\ last'.status = 200)
     => /\ last'.id \in DOMAIN notes'
        /\ last'.body.note = RowJson(notes'[last'.id])]_vars

\* C15: a Summarize request causes at most one outbound request; when the
\* upstream fails (a status that is not a success, or a network failure) the
\* failure is answered to the caller with that one request made, and the
\* request is over.
UpstreamFailed(u) == u.kind = "network" \/ ~Ok(u.status)
C15_SingleShot ==
  [][/\ inflight'.calls <= 1
     /\ last'.calls <= 1
     /\ inflight.state = "awaiting"
          => /\ inflight' = Idle
             /\ last'.op = "summarize" /\ last'.text = inflight.text
             /\ last'.calls = 1
             /\ UpstreamFailed(last'.up) => last'.status \in {401, 429, 500}]_vars

C15_Witness ==
  /\ last.op = "summarize" /\ last.calls = 1 /\ inflight = Idle
  /\ last.up.kind = "network" /\ last.status = 500

\* C16: a Create, Update or Delete answered with an error (400, 404 or 500)
\* leaves the stored notes as they were before the request: the answering
\* step changes nothing, and an Update answered with an error right after a
\* Get of its id, no other request in between, leaves the note as the Get
\* showed it.
C16_ErrorsLeaveStore ==
  [][(Answered /\ last'.op \in {"create", "update", "delete"}
        /\ last'.status \in {400, 404, 500})
     => /\ notes' = notes /\ seq' = seq
        /\ \A s \in DOMAIN pending :
             (/\ pending[s] # NoPending /\ pending'[s] = NoPending
              /\ \A r \in DOMAIN pending \ {s} : pending[r] = NoPending
              /\ last.op = "get" /\ last.status = 200 /\ last.id = pending[s].id)
             => /\ last.id \in DOMAIN notes'
                /\ RowJson(notes'[last.id]) = last.body.note]_vars

\* C17: in production mode a store error is answered 500 with a generic
\* message; the text of the underlying error is not in the response body.
C17_NoDetailInProduction ==
  (last.status = 500 /\ NODE_ENV = "production"
     /\ last.op \in {"list", "get", "create", "update", "delete"})
  => /\ last.body.text \notin StoreErrors
     /\ last.body.details = <<>>

\* C18: the process exits only after the close of the store handle has
\* completed and its callback runs, and once SIGINT is received the process
\* eventually exits.
C18_ExitAfterClose ==
  /\ [][(proc.state # "exited" /\ proc'.state = "exited")
         => proc.close \in {"done", "failed"}]_vars
  /\ (proc.state = "closing" ~> proc.state = "exited")

C18_Witness ==
  /\ proc.state = "exited" /\ proc.close = "done"
  /\ ~Quiet /\ notes # <<>>

\* C19: Updates with non-empty titles of one existing id that run at the same
\* time are all answered 200, none is refused as a conflict, and each UPDATE
\* overwrites the note whatever other Update is under way, so the note stored
\* in the end is the one of the UPDATE statement that ran last.
C19_LastWriteWins ==
  [][/\ (Answered /\ last'.op = "update" /\ ~EmptyOrMissing(last'.title))
          => \/ last'.status = 200
             \/ last'.status = 404 /\ last'.id \notin DOMAIN notes
     /\ \A s \in DOMAIN pending :
          /\ (pending[s] = NoPending /\ pending'[s] # NoPending)
               => LET r == pending'[s] IN
                  /\ TextJson(notes'[r.id].title) = r.title
                  /\ TextJson(notes'[r.id].content) = ContentOrEmpty(r.content)
          /\ (pending[s] # NoPending /\ pending'[s] = NoPending)
               => /\ notes' = notes
                  /\ last'.op = "update" /\ last'.status = 200]_vars

\* both Updates were under way together: the one answered last is not the
\* one whose UPDATE ran last
C19_Witness ==
  /\ Quiet
  /\ last.op = "update" /\ last.status = 200 /\ last.title = Str(<<"a">>)
  /\ last.id \in DOMAIN notes
  /\ notes[last.id].title = <<"b">>
  /\ last.body.kind = "note" /\ last.body.note.title = Str(<<"b">>)

\* C20: an Update answered 200 carries in its body the record of its id with
\* the title and content that Update supplied, whatever Delete or Update of
\* the id ran between its UPDATE and its re-read.
C20_AnswerIsOwnWrite ==
  [][\A s \in DOMAIN pending :
       (pending[s] # NoPending /\ pending'[s] = NoPending /\ last'.status = 200)
       => LET r == pending[s] IN
          /\ last'.body.kind = "note"
          /\ last'.body.note.id = r.id
          /\ last'.body.note.title = r.title
          /\ last'.body.note.content = ContentOrEmpty(r.content)]_vars

\* C21: a Summarize that passed the text and credential checks is answered
\* once, with 200, 401, 429 or 500, whatever the upstream did, and it is
\* eventually answered.
C21_AlwaysAnswered ==
  /\ [][inflight.state = "awaiting"
         => /\ inflight' = Idle
            /\ last'.op = "summarize" /\ last'.text = inflight.text
            /\ last'.up # NoUpstream
            /\ last'.status \in {200, 401, 429, 500}
            /\ last'.body.kind \in {"summary", "error"}
            /\ last'.status = 200 <=> last'.body.kind = "summary"]_vars
  /\ (inflight.state = "awaiting" ~> inflight = Idle)

\* a success response without a first completion is answered 500
C21_Witness ==
  /\ inflight = Idle
  /\ last.op = "summarize" /\ last.status = 500
  /\ last.up.kind = "http" /\ last.up.status = 200 /\ last.up.json
  /\ last.up.content = NoChoices

\* C22: no note request is run against the store before the notes table has
\* been created: no request is answered with the store error of the missing
\* table.
C22_TableBeforeRequests ==
  last.op \in {"list", "get", "create", "update", "delete"}
  => ~(last.status = 500 /\ last.body.text = NoSuchTable)

\* C23: validation is decided first: an Update whose title is empty or
\* missing answers 400 also when its id matches no note, never 404, and a
\* Summarize whose text is empty or only whitespace answers 400 also when no
\* credential is configured, never the 500 of the configuration error.
C23_ValidationFirst ==
  [][Answered
     => /\ (last'.op = "update" /\ EmptyOrMissing(last'.title))
             => last'.status = 400 /\ last'.body.text = "Title is required"
        /\ (last'.op = "summarize" /\ Blank(last'.text))
             => /\ last'.status = 400
                /\ last'.body.text = "Text is required for summarization"]_vars

\* an Update without a title for an id whose note is gone, answered 400 by a
\* server that has no credential
C23_Witness ==
  /\ last.op = "update" /\ last.status = 400 /\ last.title = Str(<<>>)
  /\ last.id \notin DOMAIN notes /\ last.id \in deleted
  /\ NoCredential

\* C24: in the page, whenever editingNoteId is not null it is the id of a
\* note that exists in the store.
C24_EditingNoteExists ==
  client.editingNoteId # 0 => client.editingNoteId \in DOMAIN notes

\* C25: the summarize button is disabled exactly while a summarize request
\* of the page is under way and shows the loading label then; whenever no
\* request is under way it is enabled with its original label, whether the
\* request ended in a summary, an error answer or a failed network call.
C25_ButtonRestored ==
  /\ client.disabled <=> client.sum = "sent"
  /\ client.label = IF client.disabled THEN LoadingLabel ELSE OriginalLabel
  /\ (inflight.state = "awaiting" \/ last.op = "summarize") => client.disabled
  /\ client.sum = "sent" => client.text # <<>>

\* a summary has arrived and the button is enabled again
C25_Witness ==
  /\ client.notice = "Text summarized!"
  /\ ~client.disabled /\ client.label = OriginalLabel
  /\ inflight = Idle /\ last = NoAnswer

====
